---- MODULE Spec2Model ----
(***************************************************************************)
(* A model of the csdfpy Dimension facade (csdfpy/dimensions/__init__.py)  *)
(* and of its LabeledDimension subtype (csdfpy/dimensions/labeled.py).     *)
(* The LinearDimension and MonotonicDimension subtypes, the quantity       *)
(* service and csdfpy.utils are not part of the sources at hand; their     *)
(* behaviour is taken from the specification document.                     *)
(*                                                                         *)
(* One Dimension object is modelled.  `subtype` is the facade's only slot. *)
(* Every facade operation is one action; it records what was called        *)
(* (`op`), the subtype before the call (`pre`), the exception raised       *)
(* (`err`, "" when none), whether a warning was issued (`warned`) and the   *)
(* value returned (`ret`); the caller then takes the outcome (Done) and    *)
(* may call again.                                                         *)
(*                                                                         *)
(* A second specification, SpecHeap, follows the references python hands   *)
(* around: `heap` holds the dictionaries that exist, `params` is the       *)
(* dictionary of the caller, `objs` are the Dimension objects built from   *)
(* it, whose application is a reference into `heap`; `hop` is the last     *)
(* call and `hpre` what could be observed before it.                       *)
(***************************************************************************)
EXTENDS Integers, Sequences, FiniteSets, TLC

VARIABLES subtype, err, warned, op, pre, ret, idxN, idxFft, idxArr,
          heap, params, objs, hop, hpre

vars == <<subtype, err, warned, op, pre, ret, idxN, idxFft, idxArr,
          heap, params, objs, hop, hpre>>
dimVars == <<subtype, err, warned, op, pre, ret>>
idxVars == <<idxN, idxFft, idxArr>>
heapVars == <<heap, params, objs, hop, hpre>>

(***************************************************************************)
(* Bounds of the model.                                                    *)
(***************************************************************************)
MaxCount == 4
MaxLabels == 3
MaxIndexN == 60
MaxObjects == 2
MaxRefs == 4

(***************************************************************************)
(* Markers.                                                                *)
(***************************************************************************)
\* the facade when its constructor raised: no object exists
NoDim == [type |-> "<none>"]
\* no value was returned
NoRet == [none |-> TRUE]
\* python ints, and a value that is not an int (the string "12" of the tests)
PyInt(n) == [isint |-> TRUE, v |-> n]
NotInt == [isint |-> FALSE, v |-> 12]
\* a value that is not a str (the int 12 of the tests)
NotStr == "<int 12>"
\* a value that is not a dict (the string "my_application" of the tests)
NotDict == "<str my_application>"
\* a list element that is the int 4, and the string numpy coerces it to
IntElem == "<int 4>"
IntElemStr == "4"

(***************************************************************************)
(* The quantity service.  A unit has a symbol, a scale with respect to the *)
(* base unit of its physical dimensionality (`kind`); a quantity keeps its *)
(* magnitude in thousandths of its own unit, so that conversions between   *)
(* the units below are exact.                                              *)
(***************************************************************************)
MPS == [sym |-> "m/s", scale |-> 1, kind |-> "speed"]
KMPS == [sym |-> "km/s", scale |-> 1000, kind |-> "speed"]
SEC == [sym |-> "s", scale |-> 1, kind |-> "time"]
Units == {MPS, KMPS, SEC}

\* a quantity string "<v> <sym>": the decimal number v is kept to three places
QStr(v, u) == <<v * 1000, u.sym>>

UnitOfSym(s) == CHOOSE u \in Units : u.sym = s

\* ScalarQuantity(string).quantity
ScalarQuantity(s) == [mag |-> s[1], unit |-> UnitOfSym(s[2])]

\* str(quantity): the magnitude is printed in the quantity's own unit
QuantityStr(q) == <<q.mag, q.unit.sym>>

Compatible(u1, u2) == u1.kind = u2.kind

\* Quantity.to(unit)
QTo(q, u) == [mag |-> (q.mag * q.unit.scale) \div u.scale, unit |-> u]

\* Quantity + Quantity: the sum is expressed in the unit of the left operand
QAdd(a, b) == [mag |-> a.mag + QTo(b, a.unit).mag, unit |-> a.unit]

\* number * Quantity
QScale(k, q) == [mag |-> k * q.mag, unit |-> q.unit]

\* elementwise array + scalar quantity, array.to(unit)
ArrAdd(arr, q) == [i \in DOMAIN arr |-> QAdd(arr[i], q)]
ArrTo(arr, u) == [i \in DOMAIN arr |-> QTo(arr[i], u)]

\* python's seq[:n] for n >= 0
Slice(s, n) == IF n >= Len(s) THEN s ELSE SubSeq(s, 1, n)

\* two quantities denote the same physical value
QSame(a, b) == Compatible(a.unit, b.unit) /\ a.mag * a.unit.scale = b.mag * b.unit.scale

\* a period: infinite (the dimension is not periodic), or the quantity q
Infinite(u) == [inf |-> TRUE, q |-> [mag |-> 0, unit |-> u]]
Finite(q) == [inf |-> FALSE, q |-> q]
PeriodTo(p, u) == [p EXCEPT !.q = QTo(p.q, u)]

\* the physical quantity a unit measures
QuantityName(u) == u.kind

(***************************************************************************)
(* The index array J_k of a linear dimension.                              *)
(***************************************************************************)
\* numpy.arange(a, b) for integers a <= b
Arange(a, b) == [i \in 1..(b - a) |-> a + i - 1]

\* a variant that splits both halves at count \div 2
IndexArray_HalfSplit(count, fft) ==
    IF fft
    THEN Arange(0, count \div 2) \o Arange(-(count \div 2), 0)
    ELSE Arange(0, count)

IndexArray(count, fft) ==
    IF fft
    THEN LET n == ((count - 1) \div 2) + 1
         IN Arange(0, n) \o Arange(-(count \div 2), 0)
    ELSE Arange(0, count)

(***************************************************************************)
(* Values handed to the facade.                                            *)
(***************************************************************************)
LabelAlphabet == {"m", "s"}

\* python lists of strings of length 0..MaxLabels
StringLists == UNION {[1..n -> LabelAlphabet] : n \in 0..MaxLabels}

\* a python list
PyList(items) == [isseq |-> TRUE, items |-> items]
\* the int 12, which is not a sequence
PyInt12 == [isseq |-> FALSE, items |-> <<"12">>]
\* the list ["m", 4] that holds an element that is not a string
MixedList == PyList(<<"m", IntElem>>)

LabelInputs == {PyList(l) : l \in StringLists} \cup {PyInt12, MixedList}

AppEmpty == "{}"
AppOne == "{'go': 'in'}"
Applications == {AppEmpty, AppOne}
Labels == {"", "lab"}
Descriptions == {"", "desc"}

Increments == {QStr(10, MPS), QStr(1, KMPS)}
Offsets == {QStr(5, MPS)}
Origins == {QStr(1, KMPS)}
Periods == {QStr(2, KMPS)}
QuantityNames == {"area/length"}
\* a quantity string of another physical dimensionality
OtherKind == QStr(1, SEC)

\* strictly monotonic lists of quantity strings
MonotonicLists ==
    { <<QStr(1, MPS)>>,
      <<QStr(1, MPS), QStr(2, MPS)>>,
      <<QStr(1, MPS), QStr(100, MPS), QStr(1, KMPS)>>,
      <<QStr(1, SEC), QStr(2, SEC)>> }

CountInputs == {PyInt(n) : n \in 0..(MaxCount + 1)} \cup {NotInt}

(***************************************************************************)
(* LabeledDimension (labeled.py).  An instance is a record of its slots.   *)
(***************************************************************************)
\* np.asarray(labels): a list becomes a 1-d array of strings (an int element
\* is coerced to its string), a scalar becomes a 0-d array
asarray(v) ==
    [ndim |-> IF v.isseq THEN 1 ELSE 0,
     items |-> [i \in DOMAIN v.items |->
                  IF v.items[i] = IntElem THEN IntElemStr ELSE v.items[i]]]

\* ndarray.tolist(): a list for a 1-d array, the scalar itself for a 0-d array
tolist(a) == [isseq |-> a.ndim = 1, items |-> a.items]

\* the outcome of a call: the object afterwards, the exception, the warning
Outcome(s, e, w) == [sub |-> s, err |-> e, warned |-> w]
Ok(s) == Outcome(s, "", FALSE)
Raise(s, e) == Outcome(s, e, FALSE)

\* LabeledDimension.labels (setter): the array is stored before len() is taken
Labeled_labels_set(self, labels) ==
    LET stored == [self EXCEPT !.labels = asarray(labels)]
    IN IF labels.isseq
       THEN Ok([stored EXCEPT !.count = Len(labels.items)])
       ELSE Raise(stored, "TypeError")

\* LabeledDimension.__init__
LabeledDimension(labels, label, description, application) ==
    LET blank == [type |-> "labeled", count |-> 0, labels |-> asarray(PyList(<<>>)),
                  label |-> label, description |-> description,
                  application |-> application]
        r == Labeled_labels_set(blank, labels)
    IN IF r.err = "" THEN r ELSE Raise(NoDim, r.err)

\* LabeledDimension.label (setter)
Labeled_label_set(self, label) ==
    IF label = NotStr THEN Raise(self, "TypeError")
    ELSE Ok([self EXCEPT !.label = label])

\* LabeledDimension.description (setter)
Labeled_description_set(self, value) ==
    IF value = NotStr THEN Raise(self, "ValueError")
    ELSE Ok([self EXCEPT !.description = value])

\* LabeledDimension.application (setter)
Labeled_application_set(self, value) == Ok([self EXCEPT !.application = value])

\* str.strip() on the description strings of the model
strip(s) == IF s = " " THEN "" ELSE s

\* LabeledDimension._get_python_dictionary: the keys in order, and the values
Labeled_get_python_dictionary(self) ==
    [order |-> <<"type">>
              \o (IF strip(self.description) # "" THEN <<"description">> ELSE <<>>)
              \o <<"labels">>,
     type |-> self.type,
     description |-> strip(self.description),
     labels |-> tolist(self.labels)]

(***************************************************************************)
(* The reciprocal sub-dictionary of the facade's `default` (__init__.py).  *)
(***************************************************************************)
\* the value None
None == "<None>"

\* default["reciprocal"]: a dictionary is a function of its keys
ReciprocalTemplate ==
    [increment |-> None, coordinates_offset |-> None, origin_offset |-> None,
     period |-> None, quantity_name |-> None, label |-> "", description |-> "",
     application |-> AppEmpty]

\* the loop over input_subkeys: every sub-key of the input is written into
\* default["reciprocal"]
MergeReciprocal(template, given) ==
    [k \in DOMAIN template \cup DOMAIN given |->
        IF k \in DOMAIN given THEN given[k] ELSE template[k]]

(***************************************************************************)
(* csdfpy.utils.validate(value, attr, int) as the facade uses it for       *)
(* `count`: the value must be an integer, and a count is at least 1.       *)
(***************************************************************************)
validate_count(value) ==
    IF ~value.isint THEN "TypeError"
    ELSE IF value.v < 1 THEN "ValueError"
    ELSE ""

(***************************************************************************)
(* LinearDimension.  The slots the facade reads are count, coordinates     *)
(* (the stored array index_array * increment), unit, coordinates_offset,   *)
(* origin_offset, period, increment and fft_output_order.                  *)
(***************************************************************************)
\* LinearDimension._get_coordinates: the stored array is regenerated
Linear_get_coordinates(self) ==
    LET idx == IndexArray(self.count, self.fft_output_order)
    IN [self EXCEPT !.coordinates =
            [i \in DOMAIN idx |-> QTo(QScale(idx[i], self.increment), self.unit)]]

\* LinearDimension.__init__
LinearDimension(d) ==
    LET inc == ScalarQuantity(d.increment)
        zero == [mag |-> 0, unit |-> inc.unit]
        off == IF "coordinates_offset" \in d.keys
               THEN ScalarQuantity(d.coordinates_offset) ELSE zero
        org == IF "origin_offset" \in d.keys
               THEN ScalarQuantity(d.origin_offset) ELSE zero
        per == IF "period" \in d.keys
               THEN Finite(ScalarQuantity(d.period)) ELSE Infinite(inc.unit)
    IN IF ~Compatible(off.unit, inc.unit) \/ ~Compatible(org.unit, inc.unit)
          \/ ~Compatible(per.q.unit, inc.unit)
       THEN Raise(NoDim, "DimensionalityError")
       ELSE Ok(Linear_get_coordinates(
                [type |-> "linear", count |-> d.count, increment |-> inc,
                 unit |-> inc.unit, coordinates_offset |-> off,
                 origin_offset |-> org, period |-> PeriodTo(per, inc.unit),
                 fft_output_order |-> d.fft_output_order,
                 coordinates |-> <<>>, label |-> d.label,
                 description |-> d.description, application |-> d.application,
                 reciprocal |-> d.reciprocal]))

\* LinearDimension.increment (setter)
Linear_increment_set(self, value) ==
    IF ~Compatible(ScalarQuantity(value).unit, self.unit)
    THEN Raise(self, "DimensionalityError")
    ELSE Ok(Linear_get_coordinates([self EXCEPT !.increment = ScalarQuantity(value)]))

\* LinearDimension.coordinates_offset (setter)
Linear_coordinates_offset_set(self, value) ==
    IF ~Compatible(ScalarQuantity(value).unit, self.unit)
    THEN Raise(self, "DimensionalityError")
    ELSE Ok([self EXCEPT !.coordinates_offset = ScalarQuantity(value)])

\* LinearDimension.fft_output_order (setter)
Linear_fft_output_order_set(self, value) ==
    Ok(Linear_get_coordinates([self EXCEPT !.fft_output_order = value]))

\* origin_offset (setter) of the quantitative subtypes
Quantitative_origin_offset_set(self, value) ==
    IF ~Compatible(ScalarQuantity(value).unit, self.unit)
    THEN Raise(self, "DimensionalityError")
    ELSE Ok([self EXCEPT !.origin_offset = ScalarQuantity(value)])

\* period (setter) of the quantitative subtypes
Quantitative_period_set(self, value) ==
    IF ~Compatible(ScalarQuantity(value).unit, self.unit)
    THEN Raise(self, "DimensionalityError")
    ELSE Ok([self EXCEPT !.period = PeriodTo(Finite(ScalarQuantity(value)), self.unit)])

\* quantity_name (setter) of the quantitative subtypes
Quantitative_quantity_name_set(self, value) == Raise(self, "NotImplementedError")

\* LinearDimension._to(unit)
Linear_to(self, unit) ==
    IF ~Compatible(unit, self.unit)
    THEN Raise(self, "DimensionalityError")
    ELSE Ok(Linear_get_coordinates(
             [self EXCEPT !.unit = unit,
                          !.increment = QTo(self.increment, unit),
                          !.coordinates_offset = QTo(self.coordinates_offset, unit),
                          !.origin_offset = QTo(self.origin_offset, unit),
                          !.period = PeriodTo(self.period, unit)]))

\* LinearDimension._get_python_dictionary
Linear_get_python_dictionary(self) ==
    [order |-> <<"type">>
              \o (IF strip(self.description) # "" THEN <<"description">> ELSE <<>>)
              \o <<"count", "increment">>
              \o (IF self.coordinates_offset.mag # 0
                  THEN <<"coordinates_offset">> ELSE <<>>)
              \o (IF self.origin_offset.mag # 0 THEN <<"origin_offset">> ELSE <<>>)
              \o (IF ~self.period.inf THEN <<"period">> ELSE <<>>)
              \o (IF self.fft_output_order THEN <<"fft_output_order">> ELSE <<>>)
              \o (IF self.label # "" THEN <<"label">> ELSE <<>>)
              \o (IF self.application # AppEmpty THEN <<"application">> ELSE <<>>)
              \o (IF self.reciprocal # ReciprocalTemplate THEN <<"reciprocal">>
                  ELSE <<>>),
     type |-> self.type,
     description |-> strip(self.description),
     count |-> PyInt(self.count),
     increment |-> QuantityStr(self.increment),
     coordinates_offset |-> QuantityStr(self.coordinates_offset),
     origin_offset |-> QuantityStr(self.origin_offset),
     period |-> QuantityStr(self.period.q),
     fft_output_order |-> self.fft_output_order,
     label |-> self.label,
     application |-> self.application,
     reciprocal |-> self.reciprocal]

(***************************************************************************)
(* MonotonicDimension.  The slots the facade reads are count, coordinates  *)
(* (the parsed values, in the unit of the first value), unit and           *)
(* origin_offset, and period; `values` are the quantity strings as given.  *)
(***************************************************************************)
\* MonotonicDimension.values (setter); a new dimension has no unit yet
Monotonic_values_set(self, values) ==
    LET parsed == [i \in DOMAIN values |-> ScalarQuantity(values[i])]
        unit == IF self.count = 0 THEN parsed[1].unit ELSE self.unit
    IN IF \E i \in DOMAIN parsed : ~Compatible(parsed[i].unit, unit)
       THEN Raise(self, "DimensionalityError")
       ELSE Ok([self EXCEPT !.values = values, !.unit = unit,
                            !.coordinates = ArrTo(parsed, unit),
                            !.count = Len(values)])

\* MonotonicDimension.__init__
MonotonicDimension(d) ==
    LET blank == [type |-> "monotonic", count |-> 0, values |-> <<>>,
                  unit |-> MPS, coordinates |-> <<>>,
                  origin_offset |-> [mag |-> 0, unit |-> MPS],
                  period |-> Infinite(MPS),
                  label |-> d.label, description |-> d.description,
                  application |-> d.application, reciprocal |-> d.reciprocal]
        r == Monotonic_values_set(blank, d.coordinates)
        zero == [mag |-> 0, unit |-> r.sub.unit]
        org == IF "origin_offset" \in d.keys
               THEN ScalarQuantity(d.origin_offset) ELSE zero
        per == IF "period" \in d.keys
               THEN Finite(ScalarQuantity(d.period)) ELSE Infinite(r.sub.unit)
    IN IF r.err # "" THEN Raise(NoDim, r.err)
       ELSE IF ~Compatible(org.unit, r.sub.unit) \/ ~Compatible(per.q.unit, r.sub.unit)
       THEN Raise(NoDim, "DimensionalityError")
       ELSE Ok([r.sub EXCEPT !.origin_offset = org,
                             !.period = PeriodTo(per, r.sub.unit)])

\* MonotonicDimension._to(unit)
Monotonic_to(self, unit) ==
    IF ~Compatible(unit, self.unit)
    THEN Raise(self, "DimensionalityError")
    ELSE Ok([self EXCEPT !.unit = unit,
                         !.coordinates = ArrTo(self.coordinates, unit),
                         !.origin_offset = QTo(self.origin_offset, unit),
                         !.period = PeriodTo(self.period, unit)])

\* MonotonicDimension._get_python_dictionary
Monotonic_get_python_dictionary(self) ==
    [order |-> <<"type">>
              \o (IF strip(self.description) # "" THEN <<"description">> ELSE <<>>)
              \o <<"coordinates">>
              \o (IF self.origin_offset.mag # 0 THEN <<"origin_offset">> ELSE <<>>)
              \o (IF ~self.period.inf THEN <<"period">> ELSE <<>>)
              \o (IF self.label # "" THEN <<"label">> ELSE <<>>)
              \o (IF self.application # AppEmpty THEN <<"application">> ELSE <<>>)
              \o (IF self.reciprocal # ReciprocalTemplate THEN <<"reciprocal">>
                  ELSE <<>>),
     type |-> self.type,
     description |-> strip(self.description),
     coordinates |-> Slice(self.values, self.count),
     origin_offset |-> QuantityStr(self.origin_offset),
     period |-> QuantityStr(self.period.q),
     label |-> self.label,
     application |-> self.application,
     reciprocal |-> self.reciprocal]

\* label, description and application (setters) of the quantitative subtypes
Quantitative_label_set(self, label) ==
    IF label = NotStr THEN Raise(self, "TypeError")
    ELSE Ok([self EXCEPT !.label = label])

Quantitative_description_set(self, value) ==
    IF value = NotStr THEN Raise(self, "TypeError")
    ELSE Ok([self EXCEPT !.description = value])

Quantitative_application_set(self, value) ==
    IF value = NotDict THEN Raise(self, "TypeError")
    ELSE Ok([self EXCEPT !.application = value])

(***************************************************************************)
(* The Dimension facade (__init__.py).                                     *)
(***************************************************************************)
\* the `default` dictionary of Dimension.__init__; a key whose default is
\* None is told apart by its absence from `keys`
Default ==
    [keys |-> {}, type |-> "", description |-> "", count |-> PyInt(0),
     increment |-> QStr(0, MPS), labels |-> PyList(<<>>), coordinates |-> <<>>,
     coordinates_offset |-> QStr(0, MPS), origin_offset |-> QStr(0, MPS),
     fft_output_order |-> FALSE, period |-> QStr(0, MPS), label |-> "",
     application |-> AppEmpty, reciprocal |-> ReciprocalTemplate]

DefaultKeys == DOMAIN Default \ {"keys"}

\* the loop over input_keys that copies the known keys into `default`
MergeDefault(input) ==
    [k \in DOMAIN Default |->
        IF k = "keys" THEN input.keys \cap DefaultKeys
        ELSE IF k \notin input.keys THEN Default[k]
        ELSE IF k = "reciprocal" THEN MergeReciprocal(Default[k], input[k])
        ELSE input[k]]

ValidTypes == {"monotonic", "linear", "labeled"}

\* Dimension.linear
Dimension_linear(default) ==
    IF "increment" \notin default.keys \/ "count" \notin default.keys
    THEN Raise(NoDim, "KeyError")
    ELSE IF validate_count(default.count) # ""
    THEN Raise(NoDim, validate_count(default.count))
    ELSE LinearDimension([default EXCEPT !.count = default.count.v])

\* a variant that does not look for the labels of a labeled dimension
Dimension_NoLabelsCheck(input) ==
    LET default == MergeDefault(input)
    IN IF "type" \notin input.keys THEN Raise(NoDim, "ValueError")
       ELSE IF default.type \notin ValidTypes THEN Raise(NoDim, "ValueError")
       ELSE IF default.type = "labeled"
       THEN LabeledDimension(default.labels, default.label,
                             default.description, default.application)
       ELSE IF default.type = "monotonic"
       THEN IF "coordinates" \notin default.keys THEN Raise(NoDim, "KeyError")
            ELSE MonotonicDimension(default)
       ELSE Dimension_linear(default)

\* a variant that refuses a dictionary with a key it does not know
Dimension_RejectUnknown(input) ==
    LET default == MergeDefault(input)
    IN IF ~(input.keys \subseteq DefaultKeys) THEN Raise(NoDim, "KeyError")
       ELSE IF "type" \notin input.keys THEN Raise(NoDim, "ValueError")
       ELSE IF default.type \notin ValidTypes THEN Raise(NoDim, "ValueError")
       ELSE IF default.type = "labeled"
       THEN IF "labels" \notin default.keys THEN Raise(NoDim, "KeyError")
            ELSE LabeledDimension(default.labels, default.label,
                                  default.description, default.application)
       ELSE IF default.type = "monotonic"
       THEN IF "coordinates" \notin default.keys THEN Raise(NoDim, "KeyError")
            ELSE MonotonicDimension(default)
       ELSE Dimension_linear(default)

\* Dimension.__init__
Dimension(input) ==
    LET default == MergeDefault(input)
    IN IF "type" \notin input.keys THEN Raise(NoDim, "ValueError")
       ELSE IF default.type \notin ValidTypes THEN Raise(NoDim, "ValueError")
       ELSE IF default.type = "labeled"
       THEN IF "labels" \notin default.keys THEN Raise(NoDim, "KeyError")
            ELSE LabeledDimension(default.labels, default.label,
                                  default.description, default.application)
       ELSE IF default.type = "monotonic"
       THEN IF "coordinates" \notin default.keys THEN Raise(NoDim, "KeyError")
            ELSE MonotonicDimension(default)
       ELSE Dimension_linear(default)

\* a dictionary the facade produced, as the constructor reads it: its keys
\* are those it lists in `order`
AsInput(d) ==
    [k \in DOMAIN d \cup {"keys"} |->
        IF k = "keys" THEN {d.order[i] : i \in DOMAIN d.order} ELSE d[k]]

\* the value a getter returns, or the exception it raises
Return(v) == [val |-> v, err |-> ""]
RaiseGet(e) == [val |-> <<>>, err |-> e]

\* Dimension.type
Dimension_type(self) == self.type

\* a variant whose type property has a setter
Dimension_type_set_Assigns(self, value) == Ok([self EXCEPT !.type = value])

\* assigning Dimension.type: the property has no setter
Dimension_type_set(self, value) == Raise(self, "AttributeError")

\* Dimension.count
Dimension_count(self) == self.count

\* Dimension.coordinates: the stored array of the subtype is read first, and a
\* LabeledDimension has no slot for one
Dimension_coordinates(self) ==
    IF self.type = "labeled" THEN RaiseGet("AttributeError")
    ELSE LET coordinates == Slice(self.coordinates, self.count)
         IN IF self.type = "monotonic" THEN Return(coordinates)
            ELSE Return(ArrTo(ArrAdd(coordinates, self.coordinates_offset), self.unit))

\* a variant that leaves the origin offset out
Dimension_absolute_coordinates_NoOrigin(self) == Dimension_coordinates(self)

\* Dimension.absolute_coordinates: the test `self.subtype != "labeled"` compares
\* an object with a string and holds for every subtype
Dimension_absolute_coordinates(self) ==
    LET c == Dimension_coordinates(self)
    IN IF c.err # "" THEN c
       ELSE Return(ArrTo(ArrAdd(c.val, self.origin_offset), self.unit))

\* a variant that raises nothing for a linear dimension
Dimension_coordinates_set_NoRaise(self, value) ==
    IF self.type = "monotonic" THEN Monotonic_values_set(self, value)
    ELSE IF self.type = "labeled" THEN Labeled_labels_set(self, value)
    ELSE Ok(self)

\* Dimension.coordinates (setter)
Dimension_coordinates_set(self, value) ==
    IF self.type = "monotonic" THEN Monotonic_values_set(self, value)
    ELSE IF self.type = "labeled" THEN Labeled_labels_set(self, value)
    ELSE Raise(self, "AttributeError")

\* a variant that sets the count of a linear dimension and leaves the stored
\* array as it was
Dimension_count_set_NoRegenerate(self, value) ==
    IF validate_count(value) # "" THEN Raise(self, validate_count(value))
    ELSE IF self.type = "linear"
    THEN Ok([self EXCEPT !.count = value.v])
    ELSE IF value.v > Dimension_count(self) THEN Raise(self, "ValueError")
    ELSE IF value.v < Dimension_count(self)
    THEN Outcome([self EXCEPT !.count = value.v], "", TRUE)
    ELSE Ok(self)

\* the number of entries the subtype stores
StoredLength(self) ==
    IF self.type = "labeled" THEN Len(self.labels.items) ELSE Len(self.coordinates)

\* a variant that lets the count grow back up to the stored length
Dimension_count_set_Regrow(self, value) ==
    IF validate_count(value) # "" THEN Raise(self, validate_count(value))
    ELSE IF self.type = "linear"
    THEN Ok(Linear_get_coordinates([self EXCEPT !.count = value.v]))
    ELSE IF value.v > StoredLength(self) THEN Raise(self, "ValueError")
    ELSE IF value.v < Dimension_count(self)
    THEN Outcome([self EXCEPT !.count = value.v], "", TRUE)
    ELSE Ok([self EXCEPT !.count = value.v])

\* Dimension.count (setter)
Dimension_count_set(self, value) ==
    IF validate_count(value) # "" THEN Raise(self, validate_count(value))
    ELSE IF self.type = "linear"
    THEN Ok(Linear_get_coordinates([self EXCEPT !.count = value.v]))
    ELSE IF value.v > Dimension_count(self) THEN Raise(self, "ValueError")
    ELSE IF value.v < Dimension_count(self)
    THEN Outcome([self EXCEPT !.count = value.v], "", TRUE)
    ELSE Ok(self)

\* Dimension.labels
Dimension_labels(self) ==
    IF self.type = "labeled" THEN Return(self.labels)
    ELSE RaiseGet("AttributeError")

\* Dimension.labels (setter): LabeledDimension has no _get_coordinates method
Dimension_labels_set(self, array) ==
    IF self.type # "labeled" THEN Raise(self, "AttributeError")
    ELSE LET r == Labeled_labels_set(self, array)
         IN IF r.err # "" THEN r ELSE Raise(r.sub, "AttributeError")

\* Dimension.label, description, application (setters)
Dimension_label_set(self, label) ==
    IF self.type = "labeled" THEN Labeled_label_set(self, label)
    ELSE Quantitative_label_set(self, label)

Dimension_description_set(self, value) ==
    IF self.type = "labeled" THEN Labeled_description_set(self, value)
    ELSE Quantitative_description_set(self, value)

Dimension_application_set(self, value) ==
    IF self.type = "labeled" THEN Labeled_application_set(self, value)
    ELSE Quantitative_application_set(self, value)

\* Dimension.increment, coordinates_offset, fft_output_order, origin_offset
\* (setters): a subtype without the attribute refuses the assignment
Dimension_increment_set(self, value) ==
    IF self.type = "linear" THEN Linear_increment_set(self, value)
    ELSE Raise(self, "AttributeError")

Dimension_coordinates_offset_set(self, value) ==
    IF self.type = "linear" THEN Linear_coordinates_offset_set(self, value)
    ELSE Raise(self, "AttributeError")

Dimension_fft_output_order_set(self, value) ==
    IF self.type = "linear" THEN Linear_fft_output_order_set(self, value)
    ELSE Raise(self, "AttributeError")

Dimension_origin_offset_set(self, value) ==
    IF self.type = "labeled" THEN Raise(self, "AttributeError")
    ELSE Quantitative_origin_offset_set(self, value)

\* Dimension.period (setter)
Dimension_period_set(self, value) ==
    IF self.type = "labeled" THEN Raise(self, "AttributeError")
    ELSE Quantitative_period_set(self, value)

\* Dimension.increment, fft_output_order, origin_offset, period: the attribute
\* of the subtype is returned, and a subtype without it raises
Dimension_increment(self) ==
    IF self.type = "linear" THEN Return(self.increment)
    ELSE RaiseGet("AttributeError")

Dimension_fft_output_order(self) ==
    IF self.type = "linear" THEN Return(self.fft_output_order)
    ELSE RaiseGet("AttributeError")

Dimension_origin_offset(self) ==
    IF self.type = "labeled" THEN RaiseGet("AttributeError")
    ELSE Return(self.origin_offset)

Dimension_period(self) ==
    IF self.type = "labeled" THEN RaiseGet("AttributeError")
    ELSE Return(self.period)

\* a variant that returns a zero offset where the offset does not apply
Dimension_coordinates_offset_Default(self) ==
    IF Dimension_type(self) = "linear" THEN Return(self.coordinates_offset)
    ELSE Return([mag |-> 0, unit |-> MPS])

\* Dimension.coordinates_offset: the facade itself raises unless the type is linear
Dimension_coordinates_offset(self) ==
    IF Dimension_type(self) = "linear" THEN Return(self.coordinates_offset)
    ELSE RaiseGet("AttributeError")

\* Dimension.reciprocal: LabeledDimension has no reciprocal
Dimension_reciprocal(self) ==
    IF self.type = "labeled" THEN RaiseGet("AttributeError")
    ELSE Return(self.reciprocal)

\* Dimension.quantity_name: derived from the unit of the subtype
Dimension_quantity_name(self) ==
    IF self.type = "labeled" THEN RaiseGet("AttributeError")
    ELSE Return(QuantityName(self.unit))

\* a variant that ignores the assignment on a labeled dimension
Dimension_quantity_name_set_Ignore(self, value) ==
    IF self.type = "labeled" THEN Ok(self)
    ELSE Quantitative_quantity_name_set(self, value)

\* Dimension.quantity_name (setter): LabeledDimension has no such attribute
Dimension_quantity_name_set(self, value) ==
    IF self.type = "labeled" THEN Raise(self, "AttributeError")
    ELSE Quantitative_quantity_name_set(self, value)

\* a variant that does nothing on a labeled dimension
Dimension_to_Silent(self, unit) ==
    IF self.type = "linear" THEN Linear_to(self, unit)
    ELSE IF self.type = "monotonic" THEN Monotonic_to(self, unit)
    ELSE Ok(self)

\* Dimension.to: LabeledDimension has no _to method
Dimension_to(self, unit) ==
    IF self.type = "linear" THEN Linear_to(self, unit)
    ELSE IF self.type = "monotonic" THEN Monotonic_to(self, unit)
    ELSE Raise(self, "AttributeError")

\* Dimension._get_python_dictionary
Dimension_get_python_dictionary(self) ==
    IF self.type = "labeled" THEN Labeled_get_python_dictionary(self)
    ELSE IF self.type = "monotonic" THEN Monotonic_get_python_dictionary(self)
    ELSE Linear_get_python_dictionary(self)

(***************************************************************************)
(* The dictionaries handed to the constructor.                             *)
(***************************************************************************)
\* the dictionary with the keys ks, valued as in vals
Input(ks, vals) ==
    [k \in DOMAIN Default |->
        IF k = "keys" THEN ks ELSE IF k \in ks THEN vals[k] ELSE Default[k]]

MetaKeys == {"label", "description", "application"}
\* a metadata key is given when its value is not the default one
MetaGiven(vals) == {k \in MetaKeys : vals[k] # Default[k]}

MetaValues ==
    {[Default EXCEPT !.label = lb, !.description = ds, !.application = ap] :
        lb \in Labels, ds \in Descriptions, ap \in Applications}

LabeledInputs ==
    {Input(req \cup MetaGiven(m), [m EXCEPT !.type = "labeled", !.labels = l]) :
        req \in {{"type", "labels"}, {"type"}, {"labels"}},
        m \in MetaValues, l \in LabelInputs}

MonotonicInputs ==
    {Input(req \cup opt \cup MetaGiven(m),
           [m EXCEPT !.type = "monotonic", !.coordinates = c, !.origin_offset = o,
                     !.period = p]) :
        req \in {{"type", "coordinates"}, {"type"}},
        opt \in SUBSET {"origin_offset", "period"},
        m \in MetaValues, c \in MonotonicLists, o \in Origins, p \in Periods}

LinearInputs ==
    {Input(req \cup opt \cup MetaGiven(m),
           [m EXCEPT !.type = "linear", !.count = c, !.increment = i,
                     !.coordinates_offset = b, !.origin_offset = o,
                     !.fft_output_order = f]) :
        req \in {{"type", "count", "increment"}, {"type", "count"},
                 {"type", "increment"}, {"type"}, {"count", "increment"}},
        opt \in SUBSET {"coordinates_offset", "origin_offset", "fft_output_order"},
        m \in MetaValues, c \in CountInputs, i \in Increments,
        b \in Offsets \cup {OtherKind}, o \in Origins, f \in BOOLEAN}

\* a type that is not one of the three literals, with every other key given
OtherInputs ==
    {Input(DefaultKeys,
           [Default EXCEPT !.type = t, !.labels = PyList(<<"m">>),
                           !.coordinates = <<QStr(1, MPS)>>, !.count = PyInt(1),
                           !.increment = QStr(10, MPS)]) :
        t \in {"bogus", ""}}

\* reciprocal sub-dictionaries: empty, of known sub-keys, and with a sub-key
\* that the template does not have
ReciprocalGiven ==
    { <<>>,
      [label |-> "rlab", period |-> "2 s/m"],
      [label |-> "rlab", comment |-> "none"] }

\* dictionaries with a reciprocal key
ReciprocalInputs ==
    {Input({"type", "coordinates", "reciprocal"},
           [Default EXCEPT !.type = "monotonic",
                           !.coordinates = <<QStr(1, MPS), QStr(2, MPS)>>,
                           !.reciprocal = g]) : g \in ReciprocalGiven}
    \cup
    {Input({"type", "labels", "reciprocal"},
           [Default EXCEPT !.type = "labeled", !.labels = PyList(<<"m", "s">>),
                           !.reciprocal = g]) : g \in ReciprocalGiven}
    \cup
    {Input({"type", "count", "reciprocal"},
           [Default EXCEPT !.type = "linear", !.count = PyInt(1),
                           !.reciprocal = g]) : g \in ReciprocalGiven}

KnownInputs ==
    LabeledInputs \cup MonotonicInputs \cup LinearInputs \cup OtherInputs
    \cup ReciprocalInputs

\* keys the constructor does not know
UnknownKeys == {"comment", "unit"}

\* the dictionaries above, alone or with keys the constructor does not know
Inputs ==
    {[i EXCEPT !.keys = @ \cup extra] :
        i \in KnownInputs, extra \in {{}, {"comment"}, UnknownKeys}}

\* the values tried on a subtype that refuses them whatever they are
AnyValues == {PyList(<<"m", "s">>), PyInt12}

(***************************************************************************)
(* References.  A python dictionary is an object on the heap; a variable,  *)
(* a dictionary entry or a slot holds a reference to it.  `heap[r]` is the *)
(* set of the keys of the dictionary r.                                    *)
(***************************************************************************)
EntryKeys == {"go", "k"}

\* a reference to a Dimension object, and the int 21 of the tests
DimRef(i) == [kind |-> "Dimension", ref |-> i]
Int21 == [kind |-> "int", ref |-> 21]

\* the caller's parameter dictionary: a labeled dimension whose application
\* is the dictionary `app`
HeapParams(app) ==
    Input({"type", "labels", "label", "application"},
          [Default EXCEPT !.type = "labeled", !.labels = PyList(<<"m", "s">>),
                          !.label = "lab", !.application = app])

\* csdfpy.utils._get_dictionary(*args, **kwargs): the dictionary handed over;
\* its values are the caller's objects
get_dictionary(input) == input

\* Dimension.application: the dictionary of the subtype itself, not a copy
Dimension_application(self) == self.application

\* x == y for a Dimension x: the class defines no __eq__, so python compares
\* the identities of the two objects
Dimension_eq(x, y) == x = y

\* x.copy(): the class defines no copy method, the attribute lookup fails
Dimension_copy(self) == Raise(NoDim, "AttributeError")

\* the application a caller sees on each object, on its own dictionary, and
\* the number of objects
Seen(h, os, ps) ==
    [apps |-> [i \in DOMAIN os |-> h[Dimension_application(os[i])]],
     caller |-> h[ps.application],
     n |-> Len(os)]

(***************************************************************************)
(* The state machine.                                                      *)
(***************************************************************************)
Init ==
    /\ subtype = NoDim
    /\ err = ""
    /\ warned = FALSE
    /\ op = [name |-> "", arg |-> ""]
    /\ pre = NoDim
    /\ ret = NoRet
    /\ idxN = 0
    /\ idxFft = FALSE
    /\ idxArr = <<>>
    /\ heap = <<{"go"}>>
    /\ params = HeapParams(Len(heap))
    /\ objs = <<>>
    /\ hop = [name |-> "", target |-> 0, other |-> Int21, err |-> "", eq |-> FALSE]
    /\ hpre = Seen(heap, objs, params)

\* no call is under way, and the constructor has built an object
Exists == op.name = "" /\ subtype.type # "<none>"

\* a call that may change the object
Call(name, arg, r) ==
    /\ subtype' = r.sub
    /\ err' = r.err
    /\ warned' = r.warned
    /\ op' = [name |-> name, arg |-> arg]
    /\ pre' = subtype
    /\ ret' = NoRet
    /\ UNCHANGED <<idxVars, heapVars>>

\* a read; `ret` is [val |-> the value returned], or NoRet
Read(name, g) ==
    /\ subtype' = subtype
    /\ err' = g.err
    /\ warned' = FALSE
    /\ op' = [name |-> name, arg |-> ""]
    /\ pre' = subtype
    /\ ret' = IF g.err = "" THEN [val |-> g.val] ELSE NoRet
    /\ UNCHANGED <<idxVars, heapVars>>

\* the constructor is called once, on the dictionary the caller hands over
Construct ==
    /\ op.name = ""
    /\ subtype.type = "<none>"
    /\ \E input \in Inputs : Call("Dimension", input, Dimension(input))

SetType ==
    /\ Exists
    /\ \E v \in ValidTypes : Call("type.set", v, Dimension_type_set(subtype, v))

SetCount ==
    /\ Exists
    /\ \E v \in CountInputs : Call("count.set", v, Dimension_count_set(subtype, v))

SetCoordinates ==
    /\ Exists
    /\ \E v \in (IF subtype.type = "monotonic" THEN MonotonicLists
                 ELSE IF subtype.type = "labeled" THEN LabelInputs
                 ELSE AnyValues) :
          Call("coordinates.set", v, Dimension_coordinates_set(subtype, v))

SetLabels ==
    /\ Exists
    /\ \E v \in (IF subtype.type = "labeled" THEN LabelInputs ELSE AnyValues) :
          Call("labels.set", v, Dimension_labels_set(subtype, v))

SetLabel ==
    /\ Exists
    /\ \E v \in Labels \cup {NotStr} :
          Call("label.set", v, Dimension_label_set(subtype, v))

SetDescription ==
    /\ Exists
    /\ \E v \in Descriptions \cup {NotStr} :
          Call("description.set", v, Dimension_description_set(subtype, v))

SetApplication ==
    /\ Exists
    /\ \E v \in Applications \cup {NotDict} :
          Call("application.set", v, Dimension_application_set(subtype, v))

SetIncrement ==
    /\ Exists
    /\ \E v \in Increments \cup {OtherKind} :
          Call("increment.set", v, Dimension_increment_set(subtype, v))

SetCoordinatesOffset ==
    /\ Exists
    /\ \E v \in Offsets \cup {OtherKind} :
          Call("coordinates_offset.set", v,
               Dimension_coordinates_offset_set(subtype, v))

SetOriginOffset ==
    /\ Exists
    /\ \E v \in Origins \cup {OtherKind} :
          Call("origin_offset.set", v, Dimension_origin_offset_set(subtype, v))

SetPeriod ==
    /\ Exists
    /\ \E v \in Periods \cup {OtherKind} :
          Call("period.set", v, Dimension_period_set(subtype, v))

SetQuantityName ==
    /\ Exists
    /\ \E v \in QuantityNames :
          Call("quantity_name.set", v, Dimension_quantity_name_set(subtype, v))

SetFftOutputOrder ==
    /\ Exists
    /\ \E v \in BOOLEAN :
          Call("fft_output_order.set", v, Dimension_fft_output_order_set(subtype, v))

To ==
    /\ Exists
    /\ \E u \in Units : Call("to", u, Dimension_to(subtype, u))

GetCoordinates ==
    /\ Exists
    /\ Read("coordinates", Dimension_coordinates(subtype))

GetAbsoluteCoordinates ==
    /\ Exists
    /\ Read("absolute_coordinates", Dimension_absolute_coordinates(subtype))

GetIncrement ==
    /\ Exists
    /\ Read("increment", Dimension_increment(subtype))

GetCoordinatesOffset ==
    /\ Exists
    /\ Read("coordinates_offset", Dimension_coordinates_offset(subtype))

GetOriginOffset ==
    /\ Exists
    /\ Read("origin_offset", Dimension_origin_offset(subtype))

GetPeriod ==
    /\ Exists
    /\ Read("period", Dimension_period(subtype))

GetFftOutputOrder ==
    /\ Exists
    /\ Read("fft_output_order", Dimension_fft_output_order(subtype))

GetReciprocal ==
    /\ Exists
    /\ Read("reciprocal", Dimension_reciprocal(subtype))

GetQuantityName ==
    /\ Exists
    /\ Read("quantity_name", Dimension_quantity_name(subtype))

GetLabels ==
    /\ Exists
    /\ Read("labels", Dimension_labels(subtype))

GetDictionary ==
    /\ Exists
    /\ Read("to_dict", Return(Dimension_get_python_dictionary(subtype)))

\* from_dict(to_dict(x)): a second Dimension is built from the dictionary of
\* this one; `ret` is the outcome of its constructor
RoundTrip ==
    /\ Exists
    /\ Read("from_dict",
            Return(Dimension(AsInput(Dimension_get_python_dictionary(subtype)))))

\* the caller has taken the outcome of the call
Done ==
    /\ op.name # ""
    /\ op' = [name |-> "", arg |-> ""]
    /\ pre' = NoDim
    /\ ret' = NoRet
    /\ err' = ""
    /\ warned' = FALSE
    /\ UNCHANGED <<subtype, idxVars, heapVars>>

Next ==
    \/ Construct
    \/ SetType
    \/ SetCount
    \/ SetCoordinates
    \/ SetLabels
    \/ SetLabel
    \/ SetDescription
    \/ SetApplication
    \/ SetIncrement
    \/ SetCoordinatesOffset
    \/ SetOriginOffset
    \/ SetPeriod
    \/ SetQuantityName
    \/ SetFftOutputOrder
    \/ To
    \/ GetCoordinates
    \/ GetAbsoluteCoordinates
    \/ GetIncrement
    \/ GetCoordinatesOffset
    \/ GetOriginOffset
    \/ GetPeriod
    \/ GetFftOutputOrder
    \/ GetReciprocal
    \/ GetQuantityName
    \/ GetLabels
    \/ GetDictionary
    \/ RoundTrip
    \/ Done

Spec == Init /\ [][Next]_vars

(***************************************************************************)
(* The index array on its own: any count up to MaxIndexN, either ordering. *)
(***************************************************************************)
ComputeIndex ==
    /\ \E n \in 1..MaxIndexN, f \in BOOLEAN :
          /\ idxN' = n
          /\ idxFft' = f
          /\ idxArr' = IndexArray(n, f)
    /\ UNCHANGED <<dimVars, heapVars>>

NextIndex == ComputeIndex

SpecIndex == Init /\ [][NextIndex]_vars

(***************************************************************************)
(* Objects and references: Dimension objects are built from the caller's   *)
(* dictionary, their application is assigned, the dictionary a getter      *)
(* returned is modified, objects are compared and copied.                  *)
(***************************************************************************)
HeapCall(name, target, other, e, eq) ==
    /\ hop' = [name |-> name, target |-> target, other |-> other, err |-> e,
               eq |-> eq]
    /\ hpre' = Seen(heap, objs, params)
    /\ UNCHANGED <<dimVars, idxVars>>

\* Dimension(**params), or Dimension(params)
HeapConstruct ==
    /\ Len(objs) < MaxObjects
    /\ LET r == Dimension(get_dictionary(params))
       IN /\ objs' = IF r.err = "" THEN Append(objs, r.sub) ELSE objs
          /\ HeapCall("Dimension", Len(objs) + 1, Int21, r.err, FALSE)
    /\ UNCHANGED <<heap, params>>

\* objs[i].application = {key: ...}: the caller makes a dictionary and
\* assigns it
HeapSetApplication ==
    /\ Len(heap) < MaxRefs
    /\ \E i \in DOMAIN objs, ks \in SUBSET EntryKeys :
          LET new == Len(heap) + 1
              r == Dimension_application_set(objs[i], new)
          IN /\ heap' = Append(heap, ks)
             /\ objs' = [objs EXCEPT ![i] = r.sub]
             /\ HeapCall("application.set", i, Int21, r.err, FALSE)
    /\ UNCHANGED params

\* m = objs[i].application; m[key] = ...
HeapModifyReturned ==
    /\ \E i \in DOMAIN objs, key \in EntryKeys :
          LET m == Dimension_application(objs[i])
          IN /\ heap' = [heap EXCEPT ![m] = @ \cup {key}]
             /\ HeapCall("application.modify", i, Int21, "", FALSE)
    /\ UNCHANGED <<params, objs>>

\* params["application"][key] = ...: the caller modifies its own dictionary
HeapModifyParams ==
    /\ \E key \in EntryKeys :
          /\ heap' = [heap EXCEPT ![params.application] = @ \cup {key}]
          /\ HeapCall("params.modify", 0, Int21, "", FALSE)
    /\ UNCHANGED <<params, objs>>

\* objs[i] == other, for another Dimension object, the same one, or 21
HeapEquals ==
    /\ \E i \in DOMAIN objs, other \in {DimRef(j) : j \in DOMAIN objs} \cup {Int21} :
          HeapCall("eq", i, other, "", Dimension_eq(DimRef(i), other))
    /\ UNCHANGED <<heap, params, objs>>

\* objs[i].copy()
HeapCopy ==
    /\ Len(objs) < MaxObjects
    /\ \E i \in DOMAIN objs :
          LET r == Dimension_copy(objs[i])
          IN /\ objs' = IF r.err = "" THEN Append(objs, r.sub) ELSE objs
             /\ HeapCall("copy", i, Int21, r.err, FALSE)
    /\ UNCHANGED <<heap, params>>

NextHeap ==
    \/ HeapConstruct
    \/ HeapSetApplication
    \/ HeapModifyReturned
    \/ HeapModifyParams
    \/ HeapEquals
    \/ HeapCopy

SpecHeap == Init /\ [][NextHeap]_vars

(***************************************************************************)
(* Properties.                                                             *)
(***************************************************************************)
\* index_array(count, fft_output_order) * increment + coordinates_offset from
\* the fields as they are now, in the unit of the dimension
LinearCoordinatesNow(self) ==
    LET J == IndexArray(self.count, self.fft_output_order)
    IN [i \in 1..self.count |->
          QTo(QAdd(QScale(J[i], self.increment), self.coordinates_offset), self.unit)]

Observable(self) ==
    [type |-> self.type,
     count |-> self.count,
     coordinates |-> IF self.type = "labeled" THEN self.labels.items
                     ELSE Dimension_coordinates(self).val,
     description |-> self.description,
     label |-> self.label,
     application |-> self.application,
     fft_output_order |-> IF self.type = "linear" THEN self.fft_output_order
                          ELSE FALSE]

\* C3: the Dimension built from the dictionary of a dimension has the same
\* observable state as that dimension.
C3_DictionaryRoundTrip ==
    op.name = "from_dict" =>
        /\ ret.val.err = ""
        /\ Observable(ret.val.sub) = Observable(subtype)

\* C4: no operation after the constructor changes the type, and an assignment
\* to type raises an attribute error and changes nothing.
C4_TypeFixed ==
    (op.name # "" /\ op.name # "Dimension") =>
        /\ subtype.type = pre.type
        /\ op.name = "type.set" => (err = "AttributeError" /\ subtype = pre)

\* another type was assigned to a dimension
C4_Witness ==
    /\ op.name = "type.set"
    /\ op.arg # pre.type
    /\ pre.type \in ValidTypes
    /\ err = "AttributeError"

\* the input dictionary lacks what the constructor requires
MissingRequired(input) ==
    \/ "type" \notin input.keys
    \/ input.type \notin ValidTypes
    \/ input.type = "labeled" /\ "labels" \notin input.keys
    \/ input.type = "monotonic" /\ "coordinates" \notin input.keys
    \/ input.type = "linear" /\ "increment" \notin input.keys
    \/ input.type = "linear" /\ "count" \notin input.keys

\* C5: the constructor raises, and no subtype object is made or assigned, when
\* the type key is absent, the type is not one of the three literals, or a key
\* the type requires is absent.
C5_ConstructionFails ==
    (op.name = "Dimension" /\ MissingRequired(op.arg)) =>
        /\ err # ""
        /\ subtype = NoDim

\* a labeled dimension was asked for without labels
C5_Witness ==
    /\ op.name = "Dimension"
    /\ "type" \in op.arg.keys
    /\ op.arg.type = "labeled"
    /\ "labels" \notin op.arg.keys
    /\ err = "KeyError"
    /\ subtype = NoDim

\* C6: a read of the coordinates of a labeled dimension succeeds and returns
\* the labels in order.
C6_LabeledCoordinatesReadable ==
    (op.name = "coordinates" /\ subtype.type = "labeled") =>
        /\ err = ""
        /\ ret.val = subtype.labels.items

\* C7: an assignment to the coordinates of a linear dimension raises an
\* attribute error and changes nothing; on a labeled dimension it stores the
\* given labels, on a monotonic dimension the given values of its
\* dimensionality.
C7_CoordinatesAssignment ==
    op.name = "coordinates.set" =>
        /\ pre.type = "linear" =>
              /\ err = "AttributeError"
              /\ subtype = pre
              /\ Dimension_coordinates(subtype) = Dimension_coordinates(pre)
        /\ pre.type = "labeled" =>
              /\ subtype.labels = asarray(op.arg)
              /\ op.arg.isseq => (err = "" /\ subtype.count = Len(op.arg.items))
        /\ (pre.type = "monotonic" /\ err = "") =>
              /\ subtype.values = op.arg
              /\ subtype.count = Len(op.arg)
              /\ Dimension_coordinates(subtype).val =
                    [i \in DOMAIN op.arg |-> QTo(ScalarQuantity(op.arg[i]), pre.unit)]
        /\ (pre.type = "monotonic" /\ Compatible(ScalarQuantity(op.arg[1]).unit, pre.unit)) =>
              err = ""

\* the coordinates of a linear dimension were assigned
C7_Witness ==
    /\ op.name = "coordinates.set"
    /\ pre.type = "linear"
    /\ pre.count > 1
    /\ err = "AttributeError"

\* C8: an assignment to origin_offset of a linear or monotonic dimension
\* leaves the coordinates, count, increment and coordinates_offset as they
\* were, and every absolute coordinate is the coordinate plus the origin
\* offset, in the unit of the coordinates.
C8_OriginOffset ==
    /\ (op.name = "origin_offset.set" /\ pre.type \in {"linear", "monotonic"}
          /\ err = "") =>
          /\ subtype.origin_offset = ScalarQuantity(op.arg)
          /\ subtype.count = pre.count
          /\ Dimension_coordinates(subtype) = Dimension_coordinates(pre)
          /\ pre.type = "linear" =>
                /\ subtype.increment = pre.increment
                /\ subtype.coordinates_offset = pre.coordinates_offset
    /\ (op.name = "absolute_coordinates" /\ subtype.type \in {"linear", "monotonic"}) =>
          LET c == Dimension_coordinates(subtype).val
          IN /\ err = ""
             /\ Len(ret.val) = subtype.count
             /\ \A i \in 1..subtype.count :
                   /\ ret.val[i].unit = c[i].unit
                   /\ ret.val[i].mag * ret.val[i].unit.scale =
                         c[i].mag * c[i].unit.scale
                         + subtype.origin_offset.mag * subtype.origin_offset.unit.scale

\* increment 10 m/s, coordinates_offset 5 m/s, origin_offset 1 km/s: the first
\* absolute coordinate is 1005 m/s
C8_Witness ==
    /\ op.name = "absolute_coordinates"
    /\ subtype.type = "linear"
    /\ subtype.count = MaxCount
    /\ subtype.increment = ScalarQuantity(QStr(10, MPS))
    /\ subtype.coordinates_offset = ScalarQuantity(QStr(5, MPS))
    /\ subtype.origin_offset = ScalarQuantity(QStr(1, KMPS))
    /\ ~subtype.fft_output_order
    /\ ret.val[1] = ScalarQuantity(QStr(1005, MPS))
    /\ ret.val[2] = ScalarQuantity(QStr(1015, MPS))

\* C9: on a monotonic or labeled dimension an assignment of a count above the
\* current count raises a value error and changes nothing, also when the count
\* was lowered before; no assignment to count raises the count.
C9_CountNeverGrows ==
    (op.name = "count.set" /\ pre.type \in {"monotonic", "labeled"}) =>
        /\ subtype.count <= pre.count
        /\ (op.arg.isint /\ op.arg.v > pre.count) =>
              (err = "ValueError" /\ subtype = pre)

\* the count of a labeled dimension was lowered before, and the assignment of
\* the number of labels it stores is refused
C9_Witness ==
    /\ op.name = "count.set"
    /\ pre.type = "labeled"
    /\ pre.count >= 1
    /\ pre.count < Len(pre.labels.items)
    /\ op.arg.isint
    /\ op.arg.v = Len(pre.labels.items)
    /\ err = "ValueError"
    /\ subtype = pre

\* C10: on a monotonic or labeled dimension an assignment of a count n below
\* the current count succeeds with a warning, and afterwards the count, the
\* stored entries and the entries of the dictionary are the first n.
C10_ShrinkTruncates ==
    (op.name = "count.set" /\ pre.type \in {"monotonic", "labeled"}
       /\ op.arg.isint /\ op.arg.v >= 1 /\ op.arg.v < pre.count) =>
        /\ err = ""
        /\ warned
        /\ subtype.count = op.arg.v
        /\ StoredLength(subtype) = op.arg.v
        /\ pre.type = "labeled" =>
              /\ subtype.labels.items = SubSeq(pre.labels.items, 1, op.arg.v)
              /\ Dimension_labels(subtype).val.items = SubSeq(pre.labels.items, 1, op.arg.v)
              /\ Dimension_get_python_dictionary(subtype).labels.items =
                    SubSeq(pre.labels.items, 1, op.arg.v)

\* the attributes of the numeric variants, as the names of their reads and of
\* their assignments
LinearOnly ==
    {"increment", "coordinates_offset", "fft_output_order",
     "increment.set", "coordinates_offset.set", "fft_output_order.set"}
QuantitativeOnly ==
    LinearOnly \cup {"origin_offset", "period", "origin_offset.set", "period.set"}

\* C11: on a labeled dimension every read and every assignment of increment,
\* coordinates_offset, origin_offset, period and fft_output_order raises an
\* attribute error, returns nothing and leaves the labels, count, label,
\* description and application as they were; so do the reads and assignments
\* of increment, coordinates_offset and fft_output_order on a monotonic
\* dimension.
C11_NotApplicable ==
    ((pre.type = "labeled" /\ op.name \in QuantitativeOnly)
       \/ (pre.type = "monotonic" /\ op.name \in LinearOnly)) =>
        /\ err = "AttributeError"
        /\ ret = NoRet
        /\ subtype = pre

\* the coordinates_offset of a labeled dimension with a label and an
\* application was read
C11_Witness ==
    /\ op.name = "coordinates_offset"
    /\ pre.type = "labeled"
    /\ pre.label # ""
    /\ pre.application # AppEmpty
    /\ err = "AttributeError"
    /\ ret = NoRet

\* C12: on a labeled dimension a read of absolute_coordinates and a call of
\* to(unit) raise an attribute error, return nothing and leave the labels,
\* count, label, description and application as they were.
C12_LabeledNotNumeric ==
    (pre.type = "labeled" /\ op.name \in {"absolute_coordinates", "to"}) =>
        /\ err = "AttributeError"
        /\ ret = NoRet
        /\ subtype = pre

\* to(unit) was called on a labeled dimension of several labels
C12_Witness ==
    /\ op.name = "to"
    /\ pre.type = "labeled"
    /\ pre.count > 1
    /\ pre.application # AppEmpty
    /\ err = "AttributeError"
    /\ subtype = pre

\* a value that is no list of strings: not a sequence, or a list with an
\* element that is not a string
NotStringList(v) == ~v.isseq \/ \E i \in DOMAIN v.items : v.items[i] = IntElem

\* C13: on a labeled dimension an assignment to labels of a value that is not
\* a sequence, or of a list with an element that is not a string, raises a
\* value error, and the labels and the count stay as they were.
C13_LabelsRejected ==
    (pre.type = "labeled" /\ op.name \in {"labels.set", "coordinates.set"}
       /\ NotStringList(op.arg)) =>
        /\ err = "ValueError"
        /\ subtype.labels = pre.labels
        /\ subtype.count = pre.count

\* C14: on every variant an assignment to label or description of a value
\* that is not a string, and an assignment to application of a value that is
\* not a dictionary, raises a type error and leaves the field as it was.
C14_TypeErrors ==
    /\ (op.name = "label.set" /\ op.arg = NotStr) =>
          (err = "TypeError" /\ subtype.label = pre.label)
    /\ (op.name = "description.set" /\ op.arg = NotStr) =>
          (err = "TypeError" /\ subtype.description = pre.description)
    /\ (op.name = "application.set" /\ op.arg = NotDict) =>
          (err = "TypeError" /\ subtype.application = pre.application)

\* C15 as stated: an assignment to quantity_name raises a not-implemented
\* error and leaves the dimension, its quantity_name included, as it was.
C15_QuantityNameNotImplemented ==
    op.name = "quantity_name.set" =>
        /\ err = "NotImplementedError"
        /\ subtype = pre
        /\ Dimension_quantity_name(subtype) = Dimension_quantity_name(pre)

\* C15: an assignment to quantity_name always fails and leaves the dimension,
\* its quantity_name included, as it was; the error is a not-implemented
\* error on a linear or monotonic dimension and an attribute error on a
\* labeled dimension, which has no quantity_name.
C15_QuantityNameRefused ==
    op.name = "quantity_name.set" =>
        /\ err = (IF pre.type = "labeled" THEN "AttributeError"
                  ELSE "NotImplementedError")
        /\ subtype = pre
        /\ Dimension_quantity_name(subtype) = Dimension_quantity_name(pre)

\* the quantity_name of a monotonic dimension was assigned
C15_Witness ==
    /\ op.name = "quantity_name.set"
    /\ pre.type = "monotonic"
    /\ op.arg # Dimension_quantity_name(pre).val
    /\ err = "NotImplementedError"

\* two labeled dimensions have the same variant tag and equal defining fields
SameFields(a, b) ==
    /\ a.type = b.type
    /\ a.count = b.count
    /\ a.labels = b.labels
    /\ a.label = b.label
    /\ a.description = b.description
    /\ heap[Dimension_application(a)] = heap[Dimension_application(b)]

\* C16: a comparison of two Dimension objects raises nothing and yields equal
\* exactly when they have the same variant tag and equal defining fields, so
\* that two dimensions built separately from the same parameters are equal;
\* a comparison with a value that is no Dimension yields unequal.
C16_Equality ==
    hop.name = "eq" =>
        /\ hop.err = ""
        /\ hop.other.kind = "Dimension" =>
              (hop.eq <=> SameFields(objs[hop.target], objs[hop.other.ref]))
        /\ hop.other.kind # "Dimension" => ~hop.eq

\* C17: copy() raises nothing and returns a new dimension that is equal to
\* the original and shares no dictionary with it.
C17_CopyIndependent ==
    hop.name = "copy" =>
        /\ hop.err = ""
        /\ Len(objs) = hpre.n + 1
        /\ SameFields(objs[hop.target], objs[Len(objs)])
        /\ Dimension_application(objs[Len(objs)]) #
              Dimension_application(objs[hop.target])

\* C20: when the application of one dimension is assigned, or the dictionary
\* its application getter returned is modified, the application seen on every
\* other dimension and the caller's parameter dictionary stay as they were;
\* when the caller modifies its parameter dictionary afterwards, the
\* application seen on every dimension stays as it was.
C20_NoSharedState ==
    LET now == Seen(heap, objs, params)
    IN /\ hop.name \in {"application.set", "application.modify"} =>
             /\ now.caller = hpre.caller
             /\ \A j \in 1..hpre.n : j # hop.target => now.apps[j] = hpre.apps[j]
       /\ hop.name = "params.modify" =>
             \A j \in 1..hpre.n : now.apps[j] = hpre.apps[j]

\* C18: the dictionary of a labeled dimension holds, in this order, type,
\* description when it is not empty, labels, label when it is not empty and
\* application when it is not empty, each with the value of the dimension.
C18_LabeledDictionary ==
    (op.name = "to_dict" /\ subtype.type = "labeled") =>
        LET d == ret.val
            keys == {d.order[i] : i \in DOMAIN d.order}
        IN /\ d.order =
                 <<"type">>
                 \o (IF subtype.description # "" THEN <<"description">> ELSE <<>>)
                 \o <<"labels">>
                 \o (IF subtype.label # "" THEN <<"label">> ELSE <<>>)
                 \o (IF subtype.application # AppEmpty THEN <<"application">>
                     ELSE <<>>)
           /\ d.type = "labeled"
           /\ "description" \in keys => d.description = subtype.description
           /\ "label" \in keys => d.label = subtype.label
           /\ "application" \in keys => d.application = subtype.application

\* C19: the constructor ignores the keys it does not know: on a dictionary
\* with such keys it raises exactly when it raises on the dictionary without
\* them, with the same error, and otherwise builds the same dimension.
C19_UnknownKeysIgnored ==
    (op.name = "Dimension" /\ ~(op.arg.keys \subseteq DefaultKeys)) =>
        LET P == [op.arg EXCEPT !.keys = @ \ UnknownKeys]
            r == Dimension(P)
        IN /\ err = r.err
           /\ subtype = r.sub
           /\ err = "" => Observable(subtype) = Observable(r.sub)

\* a linear dimension was built from a dictionary with two unknown keys
C19_Witness ==
    /\ op.name = "Dimension"
    /\ UnknownKeys \subseteq op.arg.keys
    /\ err = ""
    /\ subtype.type = "linear"
    /\ subtype.count = MaxCount

\* C21: whenever a dimension exists its count is at least 1: the constructor
\* rejects a count that is not a positive integer and an empty list of labels,
\* and no assignment to count, labels or coordinates brings the count to 0.
C21_CountPositive ==
    /\ subtype.type \in ValidTypes => subtype.count >= 1
    /\ (op.name = "Dimension" /\ "type" \in op.arg.keys /\ op.arg.type = "linear"
          /\ "count" \in op.arg.keys
          /\ (~op.arg.count.isint \/ op.arg.count.v < 1)) =>
          (err # "" /\ subtype = NoDim)
    /\ (op.name = "Dimension" /\ "type" \in op.arg.keys /\ op.arg.type = "labeled"
          /\ "labels" \in op.arg.keys /\ op.arg.labels = PyList(<<>>)) =>
          (err # "" /\ subtype = NoDim)

\* C22: when the dictionary handed to the constructor has a reciprocal
\* sub-dictionary, the reciprocal record has exactly the eight fields of the
\* template: a field that is given has the given value, a field that is not
\* given has its default, and a sub-key outside the template is not in the
\* record; the record of the dimension that is built is this one.
C22_ReciprocalRecord ==
    (op.name = "Dimension" /\ "reciprocal" \in op.arg.keys) =>
        LET given == op.arg.reciprocal
            rec == MergeDefault(get_dictionary(op.arg)).reciprocal
        IN /\ DOMAIN rec = DOMAIN ReciprocalTemplate
           /\ \A k \in DOMAIN ReciprocalTemplate :
                 rec[k] = IF k \in DOMAIN given THEN given[k]
                          ELSE ReciprocalTemplate[k]
           /\ (err = "" /\ subtype.type \in {"linear", "monotonic"}) =>
                 subtype.reciprocal = rec

\* C23: on a labeled dimension an assignment of a list of strings L to labels
\* raises nothing and leaves the dimension as the assignment of L to
\* coordinates does, with labels L and count len(L); and no assignment to
\* labels both changes the stored labels and raises.
C23_LabelsAsCoordinates ==
    (op.name = "labels.set" /\ pre.type = "labeled") =>
        /\ ~NotStringList(op.arg) =>
              /\ err = ""
              /\ subtype = Dimension_coordinates_set(pre, op.arg).sub
              /\ subtype.labels.items = op.arg.items
              /\ subtype.count = Len(op.arg.items)
        /\ ~(err # "" /\ subtype.labels # pre.labels)

====
